---- MODULE Spec2Model ----
(***************************************************************************)
(* Model of curator/actions.py: the nine cluster mutation actions, their   *)
(* constructors and their do_action methods, run by a driver against a     *)
(* cluster whose answers (and exceptions) are nondeterministic.  Every     *)
(* cluster call is recorded, in order, in `calls`.                         *)
(***************************************************************************)
EXTENDS Integers, Sequences, FiniteSets, TLC

\* ---------------------------------------------------------------- bounds
NumIndices == 3
ChunkMaxCount == 2
ChunkMaxSize == 4
MaxAliasCalls == 2
MaxRetryCount == 2

Indices == 1..NumIndices
Handles == 1..2

\* Length of the name of index i (names differ in length so that the size
\* bound of the chunking primitive matters).
NameLen(i) == i

\* ------------------------------------------------------- sequence helpers
Range(s) == {s[k] : k \in DOMAIN s}

RECURSIVE Flatten(_)
Flatten(ss) == IF ss = <<>> THEN <<>> ELSE Head(ss) \o Flatten(Tail(ss))

RECURSIVE Keep(_, _)
\* the subsequence of s whose elements are in S, in the order of s
Keep(s, S) ==
  IF s = <<>> THEN <<>>
  ELSE IF Head(s) \in S THEN <<Head(s)>> \o Keep(Tail(s), S)
       ELSE Keep(Tail(s), S)

\* duplicate-free sequences over Indices: the collections a driver can pass
IndexLists ==
  {s \in UNION {[1..n -> Indices] : n \in 0..NumIndices} :
     \A a, b \in DOMAIN s : a # b => s[a] # s[b]}

\* the collections passed to Alias.add / Alias.remove: one or two indices,
\* in any order, or none
AliasLists == {s \in IndexLists : Len(s) <= 2}

\* ----------------------------------------------------- utils (not in src)
RECURSIVE CsvLen(_)
\* length of the identifiers joined by a one-character delimiter
CsvLen(l) ==
  IF l = <<>> THEN 0
  ELSE IF Len(l) = 1 THEN NameLen(l[1])
       ELSE NameLen(Head(l)) + 1 + CsvLen(Tail(l))

to_csv(l) == l

RECURSIVE ChunkWith_dropping(_, _, _, _, _)
\* a chunking that leaves out an identifier longer than the size bound
ChunkWith_dropping(s, cur, acc, mc, ms) ==
  IF s = <<>> THEN (IF cur = <<>> THEN acc ELSE Append(acc, cur))
  ELSE LET e == Head(s)
           fits == /\ Len(cur) + 1 <= mc
                   /\ CsvLen(Append(cur, e)) <= ms
       IN IF fits THEN ChunkWith_dropping(Tail(s), Append(cur, e), acc, mc, ms)
          ELSE IF cur = <<>> THEN ChunkWith_dropping(Tail(s), <<>>, acc, mc, ms)
          ELSE ChunkWith_dropping(Tail(s), <<e>>, Append(acc, cur), mc, ms)

RECURSIVE ChunkWith(_, _, _, _, _)
\* the chunks of s under the count bound mc and the size bound ms: an
\* identifier joins the current chunk cur while neither bound is violated,
\* otherwise cur is closed and a new chunk starts with that identifier; an
\* identifier longer than ms has a chunk of its own
ChunkWith(s, cur, acc, mc, ms) ==
  IF s = <<>> THEN (IF cur = <<>> THEN acc ELSE Append(acc, cur))
  ELSE LET e == Head(s)
           fits == \/ cur = <<>>
                   \/ /\ Len(cur) + 1 <= mc
                      /\ CsvLen(Append(cur, e)) <= ms
       IN IF fits THEN ChunkWith(Tail(s), Append(cur, e), acc, mc, ms)
          ELSE ChunkWith(Tail(s), <<e>>, Append(acc, cur), mc, ms)

ChunkFrom(s, cur, acc) == ChunkWith(s, cur, acc, ChunkMaxCount, ChunkMaxSize)

chunk_index_list(l) == ChunkFrom(l, <<>>, <<>>)

\* report_failure(e): re-raises any exception as the uniform failure
report_failure(e) == "FailedExecution"

\* IndexList.empty_list_check / SnapshotList.empty_list_check
empty_list_check(l) == l = <<>>

\* IndexList.filter_closed: drops the indices whose state is closed
filter_closed(l, cl) == Keep(l, Indices \ cl)

\* IndexList.filter_forceMerged: drops the indices already merged
filter_forceMerged(l, mg) == Keep(l, Indices \ mg)

\* ------------------------------------------------------------------ state
VARIABLES
  kind,          \* the action class the driver has built ("none" before)
  pc,            \* where the driver / do_action stands
  outcome,       \* "none" while running, "returned", or the exception raised
  params,        \* the constructor's arguments
  calls,         \* cluster calls issued so far, in order
  indices,       \* ilo.indices (slo.snapshots for DeleteSnapshots)
  closed,        \* indices whose state is closed
  actions,       \* Alias.actions
  client,        \* Alias.client, 0 for None
  history,       \* Alias: the add/remove calls made so far
  index_lists,   \* chunks (or single names) still to be processed
  working_list,  \* DeleteIndices.__chunk_loop
  count,         \* DeleteIndices.__chunk_loop
  result,        \* DeleteIndices.__chunk_loop
  attempts,      \* DeleteIndices: the deletes and re-queries of the current chunk
  errlog,        \* DeleteIndices: the 'Unable to delete ...' lines logged
  state,         \* Snapshot.state, "None" until polled
  running,       \* cluster: a snapshot is in progress
  polls          \* safe_to_snap: polls made

vars == <<kind, pc, outcome, params, calls, indices, closed, actions, client,
          history, index_lists, working_list, count, result, attempts, errlog,
          state, running, polls>>

aliasVars == <<actions, client, history>>
loopVars == <<index_lists, working_list, count, result, attempts, errlog>>
snapVars == <<state, polls>>

\* A cluster call as the client sees it: the operation, its index argument,
\* the handle it went to, and whether it returned (ok) or raised.
Call(op, arg, ok) == [op |-> op, arg |-> arg, client |-> 1, ok |-> ok]

Init ==
  /\ kind = "none"
  /\ pc = "idle"
  /\ outcome = "none"
  /\ params = [ilo |-> <<>>]
  /\ calls = <<>>
  /\ indices = <<>>
  /\ closed = {}
  /\ actions = <<>>
  /\ client = 0
  /\ history = <<>>
  /\ index_lists = <<>>
  /\ working_list = <<>>
  /\ count = 0
  /\ result = <<>>
  /\ attempts = <<>>
  /\ errlog = <<>>
  /\ state = "None"
  /\ running = FALSE
  /\ polls = 0

\* A raise that reaches the caller ends the run.
Raise(e) == /\ pc' = "done"
            /\ outcome' = e

Return == /\ pc' = "done"
          /\ outcome' = "returned"

\* A constructor that raises: no object is built.
Reject(k, p, e) == /\ kind' = k
                   /\ params' = p
                   /\ pc' = "rejected"
                   /\ outcome' = e

\* A constructor that succeeds on the collection l.
Build(k, p, l) == /\ kind' = k
                  /\ params' = p
                  /\ pc' = "ready"
                  /\ outcome' = "none"
                  /\ indices' = l

\* Values a caller can pass for a required argument: nothing (None), a value
\* of the wrong type, a proper value.
ArgValues == {"None", "wrongtype", "ok"}

\* Python truthiness of an argument value
Truthy(a) == a # "None"

\* verify_index_list / verify_snapshot_list: raises unless ilo is a collection
verify_index_list(valid) == IF valid THEN "ok" ELSE "TypeError"

\* ------------------------------------------------------------------ Alias
Alias_init ==
  /\ pc = "idle"
  /\ \E alias \in {"None", "ok"} :
       LET p == [alias |-> alias] IN
       IF ~Truthy(alias)
       THEN Reject("Alias", p, "MissingArgument") /\ UNCHANGED indices
       ELSE Build("Alias", p, <<>>)
  /\ UNCHANGED <<calls, closed, aliasVars, loopVars, snapVars, running>>

\* remove written as a copy of add, the key left unchanged
Descriptors_all_add(op, l) ==
  [k \in 1..Len(l) |-> [op |-> "add", index |-> l[k], alias |-> params.alias]]

\* the descriptors one add/remove call appends, one per index of ilo
Descriptors(op, l) ==
  [k \in 1..Len(l) |-> [op |-> op, index |-> l[k], alias |-> params.alias]]

\* an add/remove that takes the handle of every collection it is given
Accumulate_rebinding(op, valid, l, h) ==
  IF verify_index_list(valid) # "ok"
  THEN /\ outcome' = verify_index_list(valid)
       /\ history' = Append(history, [op |-> op, ilo |-> l, h |-> h,
                                     valid |-> valid, ok |-> FALSE])
       /\ UNCHANGED <<actions, client>>
  ELSE /\ client' = h
       /\ IF empty_list_check(l)
          THEN /\ outcome' = "NoIndices"
               /\ history' = Append(history, [op |-> op, ilo |-> l, h |-> h,
                                             valid |-> valid, ok |-> FALSE])
               /\ UNCHANGED actions
          ELSE /\ outcome' = "none"
               /\ history' = Append(history, [op |-> op, ilo |-> l, h |-> h,
                                             valid |-> valid, ok |-> TRUE])
               /\ actions' = actions \o Descriptors(op, l)

\* body shared by add and remove, which differ in the descriptor's key
Accumulate(op, valid, l, h) ==
  IF verify_index_list(valid) # "ok"
  THEN /\ outcome' = verify_index_list(valid)
       /\ history' = Append(history, [op |-> op, ilo |-> l, h |-> h,
                                     valid |-> valid, ok |-> FALSE])
       /\ UNCHANGED <<actions, client>>
  ELSE /\ client' = IF client = 0 THEN h ELSE client
       /\ IF empty_list_check(l)
          THEN /\ outcome' = "NoIndices"
               /\ history' = Append(history, [op |-> op, ilo |-> l, h |-> h,
                                             valid |-> valid, ok |-> FALSE])
               /\ UNCHANGED actions
          ELSE /\ outcome' = "none"
               /\ history' = Append(history, [op |-> op, ilo |-> l, h |-> h,
                                             valid |-> valid, ok |-> TRUE])
               /\ actions' = actions \o Descriptors(op, l)

Alias_add ==
  /\ kind = "Alias" /\ pc = "ready" /\ Len(history) < MaxAliasCalls
  /\ \E valid \in BOOLEAN, l \in AliasLists, h \in Handles :
       /\ (~valid => (l = <<>> /\ h = 1))
       /\ Accumulate("add", valid, l, h)
  /\ UNCHANGED <<kind, pc, params, calls, indices, closed, loopVars, snapVars, running>>

Alias_remove ==
  /\ kind = "Alias" /\ pc = "ready" /\ Len(history) < MaxAliasCalls
  /\ \E valid \in BOOLEAN, l \in AliasLists, h \in Handles :
       /\ (~valid => (l = <<>> /\ h = 1))
       /\ Accumulate("remove", valid, l, h)
  /\ UNCHANGED <<kind, pc, params, calls, indices, closed, loopVars, snapVars, running>>

\* body(): raises ActionError when nothing was accumulated
Alias_body == IF actions = <<>> THEN "ActionError" ELSE "ok"

\* do_action: the attribute lookup on self.client, then body(), then the
\* call, all inside the try block
Alias_do_action ==
  /\ kind = "Alias" /\ pc = "ready"
  /\ IF client = 0
     THEN Raise(report_failure("AttributeError")) /\ UNCHANGED calls
     ELSE IF Alias_body # "ok"
     THEN Raise(report_failure(Alias_body)) /\ UNCHANGED calls
     ELSE \/ /\ calls' = Append(calls, [op |-> "update_aliases", arg |-> actions,
                                        client |-> client, ok |-> TRUE])
             /\ Return
          \/ /\ calls' = Append(calls, [op |-> "update_aliases", arg |-> actions,
                                        client |-> client, ok |-> FALSE])
             /\ Raise(report_failure("ClusterException"))
  /\ UNCHANGED <<kind, params, indices, closed, aliasVars, loopVars, snapVars, running>>

\* a loop that logs the failure of a chunk and goes on with the next one
ChunkCall_continue(op, at) ==
  /\ index_lists # <<>>
  /\ \E ok \in BOOLEAN :
       /\ calls' = Append(calls, Call(op, to_csv(Head(index_lists)), ok))
       /\ index_lists' = Tail(index_lists)
       /\ IF Tail(index_lists) = <<>> THEN Return
          ELSE pc' = at /\ UNCHANGED outcome

\* ------------------------------------------- per-chunk loops, shared shape
\* One iteration of `for l in index_lists: client.indices.<op>(to_csv(l))`
\* inside the try block: the call is issued; if it returns the loop goes on
\* (and the method returns after the last chunk), if it raises the except
\* clause re-raises through report_failure.
ChunkCall(op, at) ==
  /\ index_lists # <<>>
  /\ \/ /\ calls' = Append(calls, Call(op, to_csv(Head(index_lists)), TRUE))
        /\ index_lists' = Tail(index_lists)
        /\ IF Tail(index_lists) = <<>> THEN Return
           ELSE pc' = at /\ UNCHANGED outcome
     \/ /\ calls' = Append(calls, Call(op, to_csv(Head(index_lists)), FALSE))
        /\ Raise(report_failure("ClusterException"))
        /\ UNCHANGED index_lists

\* Entering the try block with the chunks of l: nothing to do when there is
\* no chunk.
EnterLoop(l, at) ==
  /\ index_lists' = chunk_index_list(l)
  /\ IF chunk_index_list(l) = <<>> THEN Return
     ELSE pc' = at /\ UNCHANGED outcome

\* ------------------------------------------------------------- Allocation
AllocationTypes == {"require", "include", "exclude", "invalid"}

Allocation_init ==
  /\ pc = "idle"
  /\ \E valid \in BOOLEAN, l \in IndexLists, cl \in SUBSET Indices,
        key \in ArgValues, value \in ArgValues, t \in AllocationTypes :
       LET p == [valid |-> valid, ilo |-> l, key |-> key, value |-> value,
                 allocation_type |-> t] IN
       /\ (~valid => (l = <<>> /\ cl = {}))
       /\ cl \subseteq Range(l)
       /\ closed' = cl
       /\ IF verify_index_list(valid) # "ok"
          THEN Reject("Allocation", p, verify_index_list(valid)) /\ UNCHANGED indices
          ELSE IF ~Truthy(key)
          THEN Reject("Allocation", p, "MissingArgument") /\ UNCHANGED indices
          ELSE IF ~Truthy(value)
          THEN Reject("Allocation", p, "MissingArgument") /\ UNCHANGED indices
          ELSE IF t \notin {"require", "include", "exclude"}
          THEN Reject("Allocation", p, "ValueError") /\ UNCHANGED indices
          ELSE Build("Allocation", p, l)
  /\ UNCHANGED <<calls, aliasVars, loopVars, snapVars, running>>

Allocation_do_action ==
  /\ kind = "Allocation" /\ pc = "ready"
  /\ indices' = filter_closed(indices, closed)
  /\ IF empty_list_check(indices')
     THEN Raise("NoIndices") /\ UNCHANGED index_lists
     ELSE EnterLoop(indices', "put_settings")
  /\ UNCHANGED <<kind, params, calls, closed, aliasVars, working_list, count,
                 result, attempts, errlog, snapVars, running>>

Allocation_put_settings ==
  /\ kind = "Allocation" /\ pc = "put_settings"
  /\ ChunkCall("put_settings", "put_settings")
  /\ UNCHANGED <<kind, params, indices, closed, aliasVars, working_list, count,
                 result, attempts, errlog, snapVars, running>>

\* ------------------------------------------------------------------ Close
Close_init ==
  /\ pc = "idle"
  /\ \E valid \in BOOLEAN, l \in IndexLists, cl \in SUBSET Indices :
       LET p == [valid |-> valid, ilo |-> l] IN
       /\ (~valid => (l = <<>> /\ cl = {}))
       /\ cl \subseteq Range(l)
       /\ closed' = cl
       /\ IF verify_index_list(valid) # "ok"
          THEN Reject("Close", p, verify_index_list(valid)) /\ UNCHANGED indices
          ELSE Build("Close", p, l)
  /\ UNCHANGED <<calls, aliasVars, loopVars, snapVars, running>>

Close_do_action ==
  /\ kind = "Close" /\ pc = "ready"
  /\ indices' = filter_closed(indices, closed)
  /\ IF empty_list_check(indices')
     THEN Raise("NoIndices") /\ UNCHANGED index_lists
     ELSE EnterLoop(indices', "flush")
  /\ UNCHANGED <<kind, params, calls, closed, aliasVars, working_list, count,
                 result, attempts, errlog, snapVars, running>>

\* a flush whose failure is logged and does not stop the close
Close_flush_unchecked ==
  /\ kind = "Close" /\ pc = "flush"
  /\ index_lists # <<>>
  /\ \E ok \in BOOLEAN :
       /\ calls' = Append(calls, Call("flush", to_csv(Head(index_lists)), ok))
       /\ pc' = "close" /\ UNCHANGED outcome
  /\ UNCHANGED <<kind, params, indices, closed, aliasVars, loopVars, snapVars,
                 running>>

\* self.client.indices.flush(index=to_csv(l), ignore_unavailable=True)
Close_flush ==
  /\ kind = "Close" /\ pc = "flush"
  /\ index_lists # <<>>
  /\ \/ /\ calls' = Append(calls, Call("flush", to_csv(Head(index_lists)), TRUE))
        /\ pc' = "close" /\ UNCHANGED outcome
     \/ /\ calls' = Append(calls, Call("flush", to_csv(Head(index_lists)), FALSE))
        /\ Raise(report_failure("ClusterException"))
  /\ UNCHANGED <<kind, params, indices, closed, aliasVars, loopVars, snapVars,
                 running>>

Close_close ==
  /\ kind = "Close" /\ pc = "close"
  /\ ChunkCall("close", "flush")
  /\ UNCHANGED <<kind, params, indices, closed, aliasVars, working_list, count,
                 result, attempts, errlog, snapVars, running>>

\* ------------------------------------------------------------------- Open
Open_init ==
  /\ pc = "idle"
  /\ \E valid \in BOOLEAN, l \in IndexLists :
       LET p == [valid |-> valid, ilo |-> l] IN
       /\ (~valid => l = <<>>)
       /\ IF verify_index_list(valid) # "ok"
          THEN Reject("Open", p, verify_index_list(valid)) /\ UNCHANGED indices
          ELSE Build("Open", p, l)
  /\ UNCHANGED <<calls, closed, aliasVars, loopVars, snapVars, running>>

Open_do_action ==
  /\ kind = "Open" /\ pc = "ready"
  /\ IF empty_list_check(indices)
     THEN Raise("NoIndices") /\ UNCHANGED index_lists
     ELSE EnterLoop(indices, "open")
  /\ UNCHANGED <<kind, params, calls, indices, closed, aliasVars, working_list,
                 count, result, attempts, errlog, snapVars, running>>

Open_open ==
  /\ kind = "Open" /\ pc = "open"
  /\ ChunkCall("open", "open")
  /\ UNCHANGED <<kind, params, indices, closed, aliasVars, working_list, count,
                 result, attempts, errlog, snapVars, running>>

\* --------------------------------------------------------------- Replicas
\* count: None, 0, a value of the wrong type, a proper count
CountValues == {"None", "zero", "wrongtype", "ok"}

Replicas_init ==
  /\ pc = "idle"
  /\ \E valid \in BOOLEAN, l \in IndexLists, cl \in SUBSET Indices,
        c \in CountValues :
       LET p == [valid |-> valid, ilo |-> l, count |-> c] IN
       /\ (~valid => (l = <<>> /\ cl = {}))
       /\ cl \subseteq Range(l)
       /\ closed' = cl
       /\ IF verify_index_list(valid) # "ok"
          THEN Reject("Replicas", p, verify_index_list(valid)) /\ UNCHANGED indices
          ELSE IF c # "zero" /\ ~Truthy(c)
          THEN Reject("Replicas", p, "MissingArgument") /\ UNCHANGED indices
          ELSE Build("Replicas", p, l)
  /\ UNCHANGED <<calls, aliasVars, loopVars, snapVars, running>>

\* do_action without the call of filter_closed
Replicas_do_action_unfiltered ==
  /\ kind = "Replicas" /\ pc = "ready"
  /\ IF empty_list_check(indices)
     THEN Raise("NoIndices") /\ UNCHANGED <<indices, index_lists>>
     ELSE /\ UNCHANGED indices
          /\ EnterLoop(indices, "put_settings")
  /\ UNCHANGED <<kind, params, calls, closed, aliasVars, working_list, count,
                 result, attempts, errlog, snapVars, running>>

\* empty_list_check, then filter_closed, then one put_settings per chunk
Replicas_do_action ==
  /\ kind = "Replicas" /\ pc = "ready"
  /\ IF empty_list_check(indices)
     THEN Raise("NoIndices") /\ UNCHANGED <<indices, index_lists>>
     ELSE /\ indices' = filter_closed(indices, closed)
          /\ EnterLoop(indices', "put_settings")
  /\ UNCHANGED <<kind, params, calls, closed, aliasVars, working_list, count,
                 result, attempts, errlog, snapVars, running>>

Replicas_put_settings ==
  /\ kind = "Replicas" /\ pc = "put_settings"
  /\ ChunkCall("put_settings", "put_settings")
  /\ UNCHANGED <<kind, params, indices, closed, aliasVars, working_list, count,
                 result, attempts, errlog, snapVars, running>>

\* ---------------------------------------------------------- DeleteIndices
MaxTries == 3

\* master_timeout: left at its default, a non-integer, an integer
TimeoutValues == {"default", "wrongtype", "ok"}

DeleteIndices_init ==
  /\ pc = "idle"
  /\ \E valid \in BOOLEAN, l \in IndexLists, mt \in TimeoutValues :
       LET p == [valid |-> valid, ilo |-> l, master_timeout |-> mt] IN
       /\ (~valid => l = <<>>)
       /\ IF verify_index_list(valid) # "ok"
          THEN Reject("DeleteIndices", p, verify_index_list(valid)) /\ UNCHANGED indices
          ELSE IF mt = "wrongtype"
          THEN Reject("DeleteIndices", p, "TypeError") /\ UNCHANGED indices
          ELSE Build("DeleteIndices", p, l)
  /\ UNCHANGED <<calls, closed, aliasVars, loopVars, snapVars, running>>

DeleteIndices_do_action ==
  /\ kind = "DeleteIndices" /\ pc = "ready"
  /\ IF empty_list_check(indices)
     THEN Raise("NoIndices") /\ UNCHANGED index_lists
     ELSE /\ index_lists' = chunk_index_list(indices)
          /\ pc' = "for" /\ UNCHANGED outcome
  /\ UNCHANGED <<kind, params, calls, indices, closed, aliasVars, working_list,
                 count, result, attempts, errlog, snapVars, running>>

\* for l in index_lists: self.__chunk_loop(l); entering __chunk_loop sets
\* working_list = chunk_list and starts with count = 1
DeleteIndices_for ==
  /\ kind = "DeleteIndices" /\ pc = "for"
  /\ IF index_lists = <<>>
     THEN Return /\ UNCHANGED <<index_lists, working_list, count, attempts>>
     ELSE /\ working_list' = Head(index_lists)
          /\ index_lists' = Tail(index_lists)
          /\ count' = 1
          /\ attempts' = <<>>
          /\ pc' = "delete" /\ UNCHANGED outcome
  /\ UNCHANGED <<kind, params, calls, indices, closed, aliasVars, result,
                 errlog, snapVars, running>>

\* self.client.indices.delete(index=to_csv(working_list), ...)
DeleteIndices_delete ==
  /\ kind = "DeleteIndices" /\ pc = "delete"
  /\ attempts' = Append(attempts, [ev |-> "delete", ids |-> working_list,
                                   present |-> {}])
  /\ \/ /\ calls' = Append(calls, Call("delete", to_csv(working_list), TRUE))
        /\ pc' = "get_indices" /\ UNCHANGED outcome
     \/ /\ calls' = Append(calls, Call("delete", to_csv(working_list), FALSE))
        /\ Raise(report_failure("ClusterException"))
  /\ UNCHANGED <<kind, params, indices, closed, aliasVars, index_lists,
                 working_list, count, result, errlog, snapVars, running>>

\* \* n get_indices calls in a row, the last of which raises unless ok
Queries(n, ok) == [k \in 1..n |-> Call("get_indices", <<>>, ok \/ k < n)]

\* result = [ i for i in working_list if i in get_indices(self.client) ]:
\* one get_indices call per element of working_list; present is the set of
\* elements the cluster still reports.  The comprehension stops at the
\* first call that raises.
DeleteIndices_get_indices ==
  /\ kind = "DeleteIndices" /\ pc = "get_indices"
  /\ \/ \E present \in SUBSET Range(working_list) :
          /\ result' = Keep(working_list, present)
          /\ calls' = calls \o Queries(Len(working_list), TRUE)
          /\ attempts' = Append(attempts, [ev |-> "result", ids |-> result',
                                           present |-> present])
          /\ pc' = "verify" /\ UNCHANGED outcome
     \/ \E n \in 1..Len(working_list) :
          /\ calls' = calls \o Queries(n, FALSE)
          /\ Raise(report_failure("ClusterException"))
          /\ UNCHANGED <<result, attempts>>
  /\ UNCHANGED <<kind, params, indices, closed, aliasVars, index_lists,
                 working_list, count, errlog, snapVars, running>>

\* a verification that never finds the chunk deleted
verify_result_never(r, c) == FALSE

\* _verify_result(result, count)
verify_result(r, c) == Len(r) = 0

\* the retry that forgets to narrow the list
NextWorkingList_stale(wl, r) == wl

\* else: working_list = result
NextWorkingList(wl, r) == r

\* survivors after the last try escalated to an exception
Exhausted_raises ==
  /\ errlog' = Append(errlog, result)
  /\ Raise("FailedExecution")

\* after the last round of range(1, 4): the survivors are logged and
\* __chunk_loop returns to the loop of do_action
Exhausted ==
  /\ errlog' = Append(errlog, result)
  /\ pc' = "for" /\ UNCHANGED outcome

\* if self._verify_result(result, count): return / else: working_list =
\* result, and the next round of range(1, 4)
DeleteIndices_verify ==
  /\ kind = "DeleteIndices" /\ pc = "verify"
  /\ IF verify_result(result, count)
     THEN pc' = "for" /\ UNCHANGED <<outcome, working_list, count, errlog>>
     ELSE /\ working_list' = NextWorkingList(working_list, result)
          /\ IF count < MaxTries
             THEN /\ pc' = "delete" /\ count' = count + 1
                  /\ UNCHANGED <<outcome, errlog>>
             ELSE Exhausted /\ UNCHANGED count
  /\ UNCHANGED <<kind, params, calls, indices, closed, aliasVars,
                 index_lists, result, attempts, snapVars, running>>

\* ------------------------------------------------------------- ForceMerge
ForceMerge_init ==
  /\ pc = "idle"
  /\ \E valid \in BOOLEAN, l \in IndexLists, m \in ArgValues :
       LET p == [valid |-> valid, ilo |-> l, max_num_segments |-> m] IN
       /\ (~valid => l = <<>>)
       /\ IF verify_index_list(valid) # "ok"
          THEN Reject("ForceMerge", p, verify_index_list(valid)) /\ UNCHANGED indices
          ELSE IF ~Truthy(m)
          THEN Reject("ForceMerge", p, "MissingArgument") /\ UNCHANGED indices
          ELSE Build("ForceMerge", p, l)
  /\ UNCHANGED <<calls, closed, aliasVars, loopVars, snapVars, running>>

\* the names grouped into chunks, as the index actions do
Singles_chunked(l) == chunk_index_list(l)

\* one-name "chunks": ForceMerge iterates the names themselves
Singles(l) == [k \in 1..Len(l) |-> <<l[k]>>]

\* empty_list_check, then filter_forceMerged, which queries the segment
\* counts (outside the try block) and drops the indices already merged
ForceMerge_do_action ==
  /\ kind = "ForceMerge" /\ pc = "ready"
  /\ IF empty_list_check(indices)
     THEN Raise("NoIndices") /\ UNCHANGED <<calls, indices, index_lists>>
     ELSE \/ \E merged \in SUBSET Range(indices) :
               /\ calls' = Append(calls, Call("segments", to_csv(indices), TRUE))
               /\ indices' = filter_forceMerged(indices, merged)
               /\ index_lists' = Singles(indices')
               /\ IF indices' = <<>> THEN Return
                  ELSE pc' = "forcemerge" /\ UNCHANGED outcome
          \/ /\ calls' = Append(calls, Call("segments", to_csv(indices), FALSE))
             /\ Raise("ClusterException")
             /\ UNCHANGED <<indices, index_lists>>
  /\ UNCHANGED <<kind, params, closed, aliasVars, working_list, count, result,
                 attempts, errlog, snapVars, running>>

ForceMerge_forcemerge ==
  /\ kind = "ForceMerge" /\ pc = "forcemerge"
  /\ ChunkCall("forcemerge", "forcemerge")
  /\ UNCHANGED <<kind, params, indices, closed, aliasVars, working_list, count,
                 result, attempts, errlog, snapVars, running>>

\* -------------------------------------------------------- DeleteSnapshots
DeleteSnapshots_init ==
  /\ pc = "idle"
  /\ \E valid \in BOOLEAN, l \in IndexLists, rc \in 1..MaxRetryCount :
       LET p == [valid |-> valid, ilo |-> l, retry_count |-> rc] IN
       /\ (~valid => (l = <<>> /\ rc = 1))
       /\ IF verify_index_list(valid) # "ok"
          THEN Reject("DeleteSnapshots", p, verify_index_list(valid)) /\ UNCHANGED indices
          ELSE Build("DeleteSnapshots", p, l)
  /\ UNCHANGED <<calls, closed, aliasVars, loopVars, snapVars, running>>

DeleteSnapshots_do_action ==
  /\ kind = "DeleteSnapshots" /\ pc = "ready"
  /\ IF empty_list_check(indices)
     THEN Raise("NoSnapshots")
     ELSE pc' = "safe_to_snap" /\ UNCHANGED outcome
  /\ UNCHANGED <<kind, params, calls, indices, closed, aliasVars, loopVars,
                 snapVars, running>>

\* the guard left out: deletion goes ahead whatever safe_to_snap answers
SafeGuard_ignored(safe) ==
  /\ index_lists' = Singles(indices)
  /\ pc' = "snapshot_delete" /\ UNCHANGED outcome

\* if not safe_to_snap(...): raise FailedExecution('Unable to delete ...');
\* otherwise the loop over the snapshots is entered
SafeGuard(safe) ==
  IF ~safe
  THEN Raise("FailedExecution") /\ UNCHANGED index_lists
  ELSE /\ index_lists' = Singles(indices)
       /\ pc' = "snapshot_delete" /\ UNCHANGED outcome

\* safe_to_snap(client, repository, retry_interval, retry_count): one poll
\* of the in-progress state per step; True at the first idle poll, False
\* after retry_count busy polls; a poll that raises is not caught by
\* do_action
DeleteSnapshots_safe_to_snap ==
  /\ kind = "DeleteSnapshots" /\ pc = "safe_to_snap"
  /\ polls' = polls + 1
  /\ \/ /\ calls' = Append(calls, [op |-> "snapshot_status", arg |-> <<>>,
                                   client |-> 1, ok |-> TRUE,
                                   in_progress |-> running])
        /\ IF ~running THEN SafeGuard(TRUE)
           ELSE IF polls' < params.retry_count
           THEN UNCHANGED <<pc, outcome, index_lists>>
           ELSE SafeGuard(FALSE)
     \/ /\ calls' = Append(calls, Call("snapshot_status", <<>>, FALSE))
        /\ Raise("ClusterException")
        /\ UNCHANGED index_lists
  /\ UNCHANGED <<kind, params, indices, closed, aliasVars, working_list, count,
                 result, attempts, errlog, state, running>>

DeleteSnapshots_delete ==
  /\ kind = "DeleteSnapshots" /\ pc = "snapshot_delete"
  /\ ChunkCall("snapshot_delete", "snapshot_delete")
  /\ UNCHANGED <<kind, params, indices, closed, aliasVars, working_list, count,
                 result, attempts, errlog, snapVars, running>>

\* --------------------------------------------------------------- Snapshot
\* verify_index_list, then repository_exists (a cluster query), then the
\* check of name
Snapshot_init ==
  /\ pc = "idle"
  /\ \E valid \in BOOLEAN, l \in IndexLists, exists \in BOOLEAN,
        name \in {"None", "ok"}, wfc \in BOOLEAN, skip \in BOOLEAN :
       LET p == [valid |-> valid, ilo |-> l, name |-> name,
                 wait_for_completion |-> wfc, skip_repo_fs_check |-> skip] IN
       /\ (~valid => (l = <<>> /\ exists /\ name = "ok" /\ wfc /\ skip))
       /\ IF verify_index_list(valid) # "ok"
          THEN /\ Reject("Snapshot", p, verify_index_list(valid))
               /\ UNCHANGED <<indices, calls>>
          ELSE /\ calls' = Append(calls, [op |-> "repository_exists",
                                          arg |-> <<>>, client |-> 1,
                                          ok |-> TRUE, exists |-> exists])
               /\ IF ~exists
                  THEN Reject("Snapshot", p, "ActionError") /\ UNCHANGED indices
                  ELSE IF ~Truthy(name)
                  THEN Reject("Snapshot", p, "MissingArgument") /\ UNCHANGED indices
                  ELSE Build("Snapshot", p, l)
  /\ UNCHANGED <<closed, aliasVars, loopVars, snapVars, running>>

\* do_action without the repository filesystem check
Snapshot_do_action_unverified ==
  /\ kind = "Snapshot" /\ pc = "ready"
  /\ pc' = "snapshot_running" /\ UNCHANGED <<outcome, calls>>
  /\ UNCHANGED <<kind, params, indices, closed, aliasVars, loopVars, snapVars,
                 running>>

\* if not self.skip_repo_fs_check: test_repo_fs(...)   (outside the try)
Snapshot_do_action ==
  /\ kind = "Snapshot" /\ pc = "ready"
  /\ IF params.skip_repo_fs_check
     THEN pc' = "snapshot_running" /\ UNCHANGED <<outcome, calls>>
     ELSE \/ /\ calls' = Append(calls, Call("test_repo_fs", <<>>, TRUE))
             /\ pc' = "snapshot_running" /\ UNCHANGED outcome
          \/ /\ calls' = Append(calls, Call("test_repo_fs", <<>>, FALSE))
             /\ Raise("ClusterException")
  /\ UNCHANGED <<kind, params, indices, closed, aliasVars, loopVars, snapVars,
                 running>>

\* if snapshot_running(self.client): raise SnapshotInProgress   (outside the try)
\* the guard left out: creation goes ahead whatever the answer
RunningGuard_ignored(answer) ==
  pc' = "snapshot_create" /\ UNCHANGED outcome

\* the test of the answer negated
RunningGuard_inverted(answer) ==
  IF ~answer THEN Raise("SnapshotInProgress")
  ELSE pc' = "snapshot_create" /\ UNCHANGED outcome

\* what do_action does with the answer of snapshot_running
RunningGuard(answer) ==
  IF answer THEN Raise("SnapshotInProgress")
  ELSE pc' = "snapshot_create" /\ UNCHANGED outcome

Snapshot_snapshot_running ==
  /\ kind = "Snapshot" /\ pc = "snapshot_running"
  /\ \/ /\ calls' = Append(calls, [op |-> "snapshot_running", arg |-> <<>>,
                                   client |-> 1, ok |-> TRUE,
                                   in_progress |-> running])
        /\ RunningGuard(running)
     \/ /\ calls' = Append(calls, Call("snapshot_running", <<>>, FALSE))
        /\ Raise("ClusterException")
  /\ UNCHANGED <<kind, params, indices, closed, aliasVars, loopVars, snapVars,
                 running>>

\* the state poll made whatever wait_for_completion says
AfterCreate_always_reports(wfc) ==
  pc' = "report_state" /\ UNCHANGED outcome

\* if self.wait_for_completion: self.report_state() / else: a warning
AfterCreate(wfc) ==
  IF wfc THEN pc' = "report_state" /\ UNCHANGED outcome
  ELSE Return

\* self.client.snapshot.create(...), inside the try
Snapshot_create ==
  /\ kind = "Snapshot" /\ pc = "snapshot_create"
  /\ \/ /\ calls' = Append(calls, [op |-> "snapshot_create", arg |-> indices,
                                   client |-> 1, ok |-> TRUE,
                                   in_progress |-> running])
        /\ AfterCreate(params.wait_for_completion)
     \/ /\ calls' = Append(calls, [op |-> "snapshot_create", arg |-> indices,
                                   client |-> 1, ok |-> FALSE,
                                   in_progress |-> running])
        /\ Raise(report_failure("ClusterException"))
  /\ UNCHANGED <<kind, params, indices, closed, aliasVars, loopVars, snapVars,
                 running>>

SnapshotStates == {"SUCCESS", "PARTIAL", "FAILED"}

\* a state other than SUCCESS escalated to a failure
ReportState_strict(st) ==
  /\ state' = st
  /\ IF st = "SUCCESS" THEN Return ELSE Raise(report_failure("CuratorException"))

\* get_state stores the reported state; report_state logs it (info for
\* SUCCESS, a warning otherwise) and returns
ReportState(st) ==
  /\ state' = st
  /\ Return

\* report_state -> get_state: one snapshot.get; an empty answer raises
\* CuratorException, which the except clause of do_action re-raises
Snapshot_report_state ==
  /\ kind = "Snapshot" /\ pc = "report_state"
  /\ \/ \E st \in SnapshotStates :
          /\ calls' = Append(calls, [op |-> "snapshot_get", arg |-> <<>>,
                                     client |-> 1, ok |-> TRUE,
                                     reported |-> st])
          /\ ReportState(st)
     \/ /\ calls' = Append(calls, [op |-> "snapshot_get", arg |-> <<>>,
                                   client |-> 1, ok |-> TRUE,
                                   reported |-> "none"])
        /\ Raise(report_failure("CuratorException")) /\ UNCHANGED state
     \/ /\ calls' = Append(calls, Call("snapshot_get", <<>>, FALSE))
        /\ Raise(report_failure("ClusterException")) /\ UNCHANGED state
  /\ UNCHANGED <<kind, params, indices, closed, aliasVars, loopVars, polls,
                 running>>

\* ------------------------------------------------------------ environment
\* Another operator starts a snapshot, or a running snapshot ends.
Cluster_snapshot ==
  /\ kind \in {"Snapshot", "DeleteSnapshots"}
  /\ pc \notin {"idle", "rejected", "done"}
  /\ running' = ~running
  /\ UNCHANGED <<kind, pc, outcome, params, calls, indices, closed, aliasVars,
                 loopVars, snapVars>>

Next ==
  \/ Snapshot_init \/ Snapshot_do_action \/ Snapshot_snapshot_running
  \/ Snapshot_create \/ Snapshot_report_state
  \/ DeleteSnapshots_init \/ DeleteSnapshots_do_action
  \/ DeleteSnapshots_safe_to_snap \/ DeleteSnapshots_delete
  \/ Alias_init \/ Alias_add \/ Alias_remove \/ Alias_do_action
  \/ Allocation_init \/ Allocation_do_action \/ Allocation_put_settings
  \/ Close_init \/ Close_do_action \/ Close_flush \/ Close_close
  \/ Open_init \/ Open_do_action \/ Open_open
  \/ Replicas_init \/ Replicas_do_action \/ Replicas_put_settings
  \/ DeleteIndices_init \/ DeleteIndices_do_action \/ DeleteIndices_for
  \/ DeleteIndices_delete \/ DeleteIndices_get_indices \/ DeleteIndices_verify
  \/ ForceMerge_init \/ ForceMerge_do_action \/ ForceMerge_forcemerge
  \/ Cluster_snapshot

Spec == Init /\ [][Next]_vars

\* the steps of a do_action that has been invoked: each cluster call is
\* synchronous and returns or raises, so the step that follows it is taken
Step ==
  \/ Snapshot_snapshot_running \/ Snapshot_create \/ Snapshot_report_state
  \/ DeleteSnapshots_safe_to_snap \/ DeleteSnapshots_delete
  \/ Allocation_put_settings \/ Close_flush \/ Close_close \/ Open_open
  \/ Replicas_put_settings \/ DeleteIndices_for \/ DeleteIndices_delete
  \/ DeleteIndices_get_indices \/ DeleteIndices_verify
  \/ ForceMerge_forcemerge

FairSpec == Spec /\ WF_vars(Step)

TypeOK ==
  /\ pc \in {"idle", "rejected", "ready", "done", "put_settings", "flush",
             "close", "open", "for", "delete", "get_indices", "verify",
             "forcemerge", "safe_to_snap", "snapshot_delete",
             "snapshot_running", "snapshot_create", "report_state"}
  /\ count \in 0..MaxTries
  /\ polls \in 0..MaxRetryCount

\* ================================================================ claims
IloKinds == {"Allocation", "Close", "Open", "DeleteIndices", "Replicas",
             "ForceMerge", "Snapshot", "DeleteSnapshots"}

\* do_action has been invoked
Executing == pc \notin {"idle", "rejected", "ready"}

\* the cluster calls issued by do_action (the constructor of Snapshot issues
\* the repository_exists query)
ExecuteCalls == SelectSeq(calls, LAMBDA c : c.op # "repository_exists")

EmptyCollectionErrors == {"NoIndices", "NoSnapshots"}

CallsOf(op) == {k \in DOMAIN calls : calls[k].op = op}

NoCallRaised == \A k \in DOMAIN calls : calls[k].ok

\* C1: for every action kind, do_action on an empty collection raises the
\* empty-collection error and issues no cluster call of any kind.  (Alias
\* takes its collections in add/remove: an empty one raises there, and no
\* cluster call follows from it.)
C1_EmptyCollectionGuard ==
  /\ (kind \in IloKinds /\ Executing /\ params.ilo = <<>>) =>
        /\ ExecuteCalls = <<>>
        /\ pc = "done" => outcome \in EmptyCollectionErrors
  /\ (kind = "Alias" /\ pc = "ready" /\ history # <<>>) =>
        LET last == history[Len(history)] IN
        (last.valid /\ last.ilo = <<>>) =>
           (outcome \in EmptyCollectionErrors /\ calls = <<>>)

\* C2: when the snapshot_running check of Snapshot.do_action answers that a
\* snapshot is in progress, do_action raises SnapshotInProgress (not the
\* uniform FailedExecution) and no snapshot-create call is issued.
C2_SnapshotInProgressConflict ==
  \A k \in DOMAIN calls :
    (calls[k].op = "snapshot_running" /\ calls[k].ok /\ calls[k].in_progress) =>
       /\ pc = "done"
       /\ outcome = "SnapshotInProgress"
       /\ CallsOf("snapshot_create") = {}

C2_Witness ==
  /\ kind = "Snapshot" /\ pc = "done" /\ outcome = "SnapshotInProgress"
  /\ \E k \in CallsOf("snapshot_running") : calls[k].ok /\ calls[k].in_progress
  /\ CallsOf("test_repo_fs") # {}

\* ------------------------------------------------ DeleteIndices retry loop
\* the chunk __chunk_loop is (or was last) working on
CurrentChunk ==
  LET all == chunk_index_list(indices) IN all[Len(all) - Len(index_lists)]

DeleteEvents == {p \in DOMAIN attempts : attempts[p].ev = "delete"}

\* __chunk_loop has returned for the chunk recorded in attempts
ChunkFinished ==
  /\ kind = "DeleteIndices" /\ attempts # <<>>
  /\ pc = "for" \/ (pc = "done" /\ outcome = "returned")

\* the attempts (1, 2, 3) whose re-query found nothing left
CleanAttempts ==
  {j \in 1..MaxTries : 2 * j <= Len(attempts) /\ attempts[2 * j].ev = "result"
                       /\ attempts[2 * j].ids = <<>>}

Least(S) == CHOOSE x \in S : \A y \in S : x <= y

\* C3: with no cluster call raising, the delete calls issued for a chunk
\* number k, the first attempt whose re-query shows none of the targets
\* present, and 3 when there is no such attempt; no delete call follows a
\* re-query that showed none present.
C3_DeleteCallCount ==
  kind = "DeleteIndices" =>
    /\ \A p \in DOMAIN attempts :
         (attempts[p].ev = "result" /\ attempts[p].ids = <<>>) => p = Len(attempts)
    /\ ChunkFinished =>
         Cardinality(DeleteEvents) =
            (IF CleanAttempts # {} THEN Least(CleanAttempts) ELSE 3)
    /\ Cardinality(DeleteEvents) <= Cardinality(CallsOf("delete"))

C3_Witness ==
  /\ ChunkFinished
  /\ Cardinality(DeleteEvents) = 2
  /\ Len(attempts[1].ids) = 2
  /\ attempts[2].ids # <<>>
  /\ attempts[4].ids = <<>>

\* identifiers were still present after the third attempt of some chunk
Survivors ==
  \/ errlog # <<>>
  \/ /\ Len(attempts) = 2 * MaxTries
     /\ attempts[Len(attempts)].ids # <<>>

\* C4: identifiers still present after the third attempt, and no cluster
\* call raised: do_action does not raise; the survivors are logged, every
\* remaining chunk is processed, and do_action returns normally.
C4_SoftFail ==
  kind = "DeleteIndices" =>
    /\ (pc = "done" /\ NoCallRaised /\ Survivors) =>
          /\ outcome = "returned"
          /\ \A c \in Range(chunk_index_list(params.ilo)) :
                \E k \in CallsOf("delete") : calls[k].arg = to_csv(c)
    /\ (ChunkFinished /\ Len(attempts) = 2 * MaxTries
          /\ attempts[Len(attempts)].ids # <<>>) =>
          /\ errlog # <<>>
          /\ errlog[Len(errlog)] = attempts[Len(attempts)].ids
    /\ (Survivors /\ NoCallRaised) => outcome \in {"none", "returned"}

C4_Witness ==
  /\ kind = "DeleteIndices" /\ pc = "done" /\ outcome = "returned"
  /\ Len(chunk_index_list(params.ilo)) >= 2
  /\ Len(errlog) = 1
  /\ Range(errlog[1]) \subseteq Range(chunk_index_list(params.ilo)[1])
  /\ NoCallRaised

\* C5: the first delete call of a chunk targets the whole chunk; every
\* later one targets exactly the identifiers of the previous target that the
\* re-query in between reported present; so each target is a subset of the
\* previous one and of the chunk, and an identifier once reported absent is
\* not targeted again in that chunk.
C5_RetryTargets ==
  (kind = "DeleteIndices" /\ attempts # <<>>) =>
    /\ attempts[1].ev = "delete" /\ attempts[1].ids = CurrentChunk
    /\ \A p \in DOMAIN attempts :
         /\ (attempts[p].ev = "result") =>
               /\ p > 1 /\ attempts[p - 1].ev = "delete"
               /\ attempts[p].ids =
                     Keep(attempts[p - 1].ids, attempts[p].present)
         /\ (attempts[p].ev = "delete" /\ p > 1) =>
               /\ attempts[p - 1].ev = "result"
               /\ attempts[p].ids = attempts[p - 1].ids
               /\ Range(attempts[p].ids) \subseteq Range(attempts[p - 2].ids)
               /\ Range(attempts[p].ids) \subseteq Range(CurrentChunk)
               /\ \A q \in 1..(p - 1) :
                    attempts[q].ev = "result" =>
                       Range(attempts[p].ids) \subseteq attempts[q].present
    /\ LET last == CHOOSE p \in DeleteEvents : \A q \in DeleteEvents : q <= p
           lastcall == CHOOSE k \in CallsOf("delete") :
                          \A j \in CallsOf("delete") : j <= k
       IN calls[lastcall].arg = to_csv(attempts[last].ids)

C5_Witness ==
  /\ kind = "DeleteIndices"
  /\ Len(attempts) >= 3
  /\ attempts[3].ev = "delete"
  /\ Len(attempts[1].ids) = 2
  /\ Len(attempts[3].ids) = 1

\* ------------------------------------------------------------------ Alias
RECURSIVE ExpectedBody(_)
\* one descriptor per index of each collection passed, in the order of the calls
ExpectedBody(h) ==
  IF h = <<>> THEN <<>>
  ELSE LET e == Head(h) IN
       [k \in 1..Len(e.ilo) |->
           [op |-> e.op, index |-> e.ilo[k], alias |-> params.alias]]
       \o ExpectedBody(Tail(h))

\* some add/remove calls were made and all of them succeeded
AllSucceeded == history # <<>> /\ \A k \in DOMAIN history : history[k].ok

\* C6: after successful add and remove calls, do_action issues exactly one
\* update-aliases call, whose body holds every accumulated descriptor, one
\* per index of each collection passed, in the order of the calls, none
\* left out and none repeated; no cluster call is issued before do_action.
C6_AliasSingleRequest ==
  kind = "Alias" =>
    /\ pc = "ready" => calls = <<>>
    /\ (pc = "done" /\ AllSucceeded) =>
          /\ Len(calls) = 1
          /\ calls[1].op = "update_aliases"
          /\ calls[1].arg = ExpectedBody(history)

C6_Witness ==
  /\ kind = "Alias" /\ pc = "done" /\ outcome = "returned"
  /\ Len(history) = 2 /\ AllSucceeded
  /\ history[1].op = "add" /\ Len(history[1].ilo) = 2
  /\ history[2].op = "remove"
  /\ Len(calls) = 1 /\ Len(calls[1].arg) = 2 + Len(history[2].ilo)

\* C7: do_action with nothing accumulated raises ActionError to the caller,
\* whether or not a client is bound, and issues no update-aliases call.
C7_AliasEmptyBodyError ==
  (kind = "Alias" /\ pc = "done" /\ actions = <<>>) =>
     /\ outcome = "ActionError"
     /\ CallsOf("update_aliases") = {}

\* ----------------------------------------------------------- construction
\* the constructor was given an invalid collection, or a required argument
\* that is missing or of the wrong type, or an allocation type not allowed
BadArguments ==
  CASE kind = "Alias" -> params.alias # "ok"
    [] kind = "Allocation" ->
         \/ ~params.valid
         \/ params.key # "ok" \/ params.value # "ok"
         \/ params.allocation_type \notin {"require", "include", "exclude"}
    [] kind = "DeleteIndices" ->
         ~params.valid \/ params.master_timeout = "wrongtype"
    [] kind = "ForceMerge" ->
         ~params.valid \/ params.max_num_segments # "ok"
    [] kind = "Replicas" ->
         ~params.valid \/ params.count \in {"None", "wrongtype"}
    [] kind = "Snapshot" ->
         ~params.valid \/ params.name # "ok"
    [] OTHER -> ~params.valid

\* C8: a constructor given an invalid collection, a missing or wrongly
\* typed required argument, or an allocation type outside require /
\* include / exclude raises, and no cluster call precedes the error.
C8_ConstructionValidation ==
  (kind # "none" /\ BadArguments) => (pc = "rejected" /\ calls = <<>>)

\* ------------------------------------------------------------- filtering
MutatingOps == {"put_settings", "flush", "close", "forcemerge"}

\* C9: Allocation, Close, Replicas, ForceMerge: a collection that is not
\* empty before do_action and that the filtering empties makes do_action
\* raise the empty-collection error without any mutating cluster call.
C9_FilteredEmptyGuard ==
  (/\ kind \in {"Allocation", "Close", "Replicas", "ForceMerge"}
   /\ Executing
   /\ params.ilo # <<>>
   /\ indices = <<>>) =>
     /\ pc = "done"
     /\ outcome \in EmptyCollectionErrors
     /\ \A k \in DOMAIN calls : calls[k].op \notin MutatingOps

\* the collection holds both open and closed indices
Mixed == closed # {} /\ Range(params.ilo) \ closed # {}

OpenIndices == Range(params.ilo) \ closed

PutSettingsUnion == UNION {Range(calls[k].arg) : k \in CallsOf("put_settings")}

C11_UniformFailure ==
  (kind = "Alias" \/ params.ilo # <<>>) =>
    \A k \in DOMAIN calls :
      ~calls[k].ok => (pc = "done" /\ outcome = "FailedExecution")

\* -------------------------------------------------------- chunked actions
ChunkedKinds == {"Allocation", "Close", "Open", "Replicas", "DeleteIndices"}

\* the mutating calls an action issues for each chunk
ChunkOps ==
  CASE kind \in {"Allocation", "Replicas"} -> {"put_settings"}
    [] kind = "Close" -> {"flush", "close"}
    [] kind = "Open" -> {"open"}
    [] kind = "DeleteIndices" -> {"delete"}
    [] OTHER -> {}

\* the chunks of the collection do_action works on (after its filtering)
Chunks == chunk_index_list(indices)

\* the chunk a call's index argument belongs to
ChunkIdx(arg) == CHOOSE j \in DOMAIN Chunks : Range(arg) \subseteq Range(Chunks[j])

\* the calls that carry an index argument, in the order issued
TargetCalls == SelectSeq(calls, LAMBDA c : c.arg # <<>>)

\* C12: Allocation, Close, Open, Replicas, DeleteIndices: the calls go
\* through the chunks in chunk order; when the call for chunk k raises, every
\* call of the chunks 1..k-1 was issued before it, nothing is issued after it
\* (no call for a later chunk), and no call other than the action's own
\* forward calls is ever issued (nothing undoes the earlier chunks).
C12_AbortNoRollback ==
  (kind \in ChunkedKinds /\ calls # <<>>) =>
    LET T == TargetCalls
        cs == Chunks
        n == Len(calls)
        \* the chunk each call of T belongs to, 0 when it belongs to none
        idx == [p \in DOMAIN T |->
                  IF \E j \in DOMAIN cs : Range(T[p].arg) \subseteq Range(cs[j])
                  THEN CHOOSE j \in DOMAIN cs :
                         Range(T[p].arg) \subseteq Range(cs[j])
                  ELSE 0]
    IN
    /\ \A k \in DOMAIN calls : calls[k].op \in ChunkOps \cup {"get_indices"}
    /\ \A p \in DOMAIN T : T[p].op \in ChunkOps /\ idx[p] > 0
    /\ \A p \in 1..(Len(T) - 1) : idx[p] <= idx[p + 1]
    /\ \A k \in 1..(n - 1) : calls[k].ok
    /\ ~calls[n].ok =>
         /\ pc = "done" /\ outcome # "returned"
         /\ \A j \in 1..(idx[Len(T)] - 1) :
              \A op \in ChunkOps :
                \E p \in DOMAIN T :
                  /\ T[p].op = op /\ T[p].arg = to_csv(cs[j])
                  /\ T[p].ok

C12_Witness ==
  /\ kind = "Open" /\ pc = "done"
  /\ Len(Chunks) = 3
  /\ Len(calls) = 2
  /\ calls[1].ok /\ calls[1].arg = to_csv(Chunks[1])
  /\ ~calls[2].ok /\ calls[2].arg = to_csv(Chunks[2])

\* --------------------------------------------------------------- chunking
\* the count and size bounds the chunking is examined under; the smaller
\* size bounds are shorter than the longer names
CountBounds == 1..(ChunkMaxCount + 1)
SizeBounds == 1..(ChunkMaxSize + 1)

\* C13: for every collection handed to an action and every count and size
\* bound, the chunks concatenated in order are exactly the collection: no
\* identifier left out, repeated, moved or split, also when an identifier
\* is longer than the size bound; no chunk is empty.  The chunks the actions
\* have called, followed by those still to be called, are the collection
\* they work on.
C13_ChunkingLossless ==
  kind \in IloKinds =>
    /\ pc = "ready" =>
         \A mc \in CountBounds, ms \in SizeBounds :
           LET cs == ChunkWith(params.ilo, <<>>, <<>>, mc, ms) IN
           /\ Flatten(cs) = params.ilo
           /\ \A j \in DOMAIN cs : cs[j] # <<>>
    /\ (kind \in {"Allocation", "Open", "Replicas"} /\ Executing
          /\ NoCallRaised /\ indices # <<>>) =>
          Flatten([k \in DOMAIN calls |-> calls[k].arg]) \o Flatten(index_lists)
             = indices

C13_Witness ==
  /\ kind = "Open" /\ pc = "open"
  /\ Len(params.ilo) = 3
  /\ Len(calls) = 1 /\ Len(index_lists) = 2
  /\ \E ms \in SizeBounds, i \in Range(params.ilo) :
       /\ NameLen(i) > ms
       /\ \E c \in Range(ChunkWith(params.ilo, <<>>, <<>>, ChunkMaxCount, ms)) :
            c = <<i>>

\* -------------------------------------------------------- DeleteSnapshots
StatusPolls == CallsOf("snapshot_status")

\* every poll of the in-progress guard answered, and found a snapshot in
\* progress
AlwaysBusy ==
  /\ StatusPolls # {}
  /\ \A k \in StatusPolls : calls[k].ok /\ calls[k].in_progress

\* C14: DeleteSnapshots.do_action never polls the in-progress guard more
\* than retry_count times; when every poll finds a snapshot in progress it
\* raises FailedExecution ('Unable to delete snapshot(s) ...') after
\* retry_count polls with no snapshot-delete call issued; and a
\* snapshot-delete call is only ever issued after a poll that reported the
\* repository idle.
C14_BusyRepositoryGuard ==
  kind = "DeleteSnapshots" =>
    /\ Cardinality(StatusPolls) = polls
    /\ polls <= params.retry_count
    /\ (pc = "done" /\ AlwaysBusy) =>
          /\ outcome = "FailedExecution"
          /\ polls = params.retry_count
          /\ CallsOf("snapshot_delete") = {}
    /\ \A k \in CallsOf("snapshot_delete") :
         \E j \in StatusPolls :
           j < k /\ calls[j].ok /\ ~calls[j].in_progress

C14_Witness ==
  /\ kind = "DeleteSnapshots" /\ pc = "done" /\ outcome = "FailedExecution"
  /\ params.retry_count = 2 /\ polls = 2
  /\ AlwaysBusy
  /\ Len(indices) = 2
  /\ CallsOf("snapshot_delete") = {}

\* --------------------------------------------------------------- Snapshot
\* the snapshot-create call returned
Created == \E k \in CallsOf("snapshot_create") : calls[k].ok

\* C15: with wait_for_completion true, once the snapshot-create call has
\* returned do_action issues exactly one snapshot-get state poll, as its
\* last call; whatever terminal state the poll reports (SUCCESS, PARTIAL,
\* FAILED) do_action returns normally with that state recorded; there is
\* never a second snapshot-create call nor a second poll.
C15_SinglePollAnyState ==
  (kind = "Snapshot" /\ params.wait_for_completion) =>
    /\ Cardinality(CallsOf("snapshot_create")) <= 1
    /\ Cardinality(CallsOf("snapshot_get")) <= 1
    /\ \A g \in CallsOf("snapshot_get") :
         /\ g = Len(calls)
         /\ calls[g - 1].op = "snapshot_create" /\ calls[g - 1].ok
    /\ (pc = "done" /\ Created) => Cardinality(CallsOf("snapshot_get")) = 1
    /\ \A g \in CallsOf("snapshot_get") :
         (calls[g].ok /\ calls[g].reported \in SnapshotStates) =>
            /\ pc = "done" /\ outcome = "returned"
            /\ state = calls[g].reported

C15_Witness ==
  /\ kind = "Snapshot" /\ params.wait_for_completion
  /\ pc = "done" /\ outcome = "returned"
  /\ state = "FAILED"
  /\ Cardinality(CallsOf("snapshot_get")) = 1
  /\ Cardinality(CallsOf("snapshot_create")) = 1

\* C16: with wait_for_completion false, do_action returns right after the
\* snapshot-create call: that call is its last, no snapshot-get call is
\* ever issued and the recorded state stays unset.
C16_AsyncNoPoll ==
  (kind = "Snapshot" /\ ~params.wait_for_completion) =>
    /\ CallsOf("snapshot_get") = {}
    /\ state = "None"
    /\ \A k \in CallsOf("snapshot_create") :
         /\ k = Len(calls) /\ pc = "done"
         /\ calls[k].ok => outcome = "returned"

C16_Witness ==
  /\ kind = "Snapshot" /\ ~params.wait_for_completion
  /\ pc = "done" /\ outcome = "returned"
  /\ Created
  /\ state = "None"

\* one of the checks before the creation did not pass: the repository is
\* missing, the filesystem check raised, the in-progress check raised or
\* reported a running snapshot
PreCheckFailed ==
  \E k \in DOMAIN calls :
    \/ calls[k].op = "repository_exists" /\ ~(calls[k].ok /\ calls[k].exists)
    \/ calls[k].op = "test_repo_fs" /\ ~calls[k].ok
    \/ calls[k].op = "snapshot_running" /\ ~(calls[k].ok /\ ~calls[k].in_progress)

\* C17: every snapshot-create call comes after, in this order, the
\* repository_exists check of the constructor answering that the repository
\* exists, the test_repo_fs check returning (exactly one, and none at all
\* with skip_repo_fs_check), and the snapshot_running check answering that
\* no snapshot runs; when one of these checks fails no snapshot-create call
\* is issued.
C17_CreatePreconditions ==
  kind = "Snapshot" =>
    /\ \A k \in CallsOf("snapshot_create") :
         /\ calls[1].op = "repository_exists" /\ calls[1].ok /\ calls[1].exists
         /\ IF params.skip_repo_fs_check
            THEN CallsOf("test_repo_fs") = {} /\ k = 3
            ELSE /\ CallsOf("test_repo_fs") = {2} /\ calls[2].ok
                 /\ k = 4
         /\ calls[k - 1].op = "snapshot_running"
         /\ calls[k - 1].ok /\ ~calls[k - 1].in_progress
    /\ PreCheckFailed => CallsOf("snapshot_create") = {}
    /\ params.skip_repo_fs_check => CallsOf("test_repo_fs") = {}

C17_Witness ==
  /\ kind = "Snapshot" /\ ~params.skip_repo_fs_check
  /\ Len(calls) = 4
  /\ calls[4].op = "snapshot_create" /\ calls[4].ok
  /\ indices # <<>>

\* -------------------------------------------------------- DeleteSnapshots
\* the snapshot-delete calls, in the order issued
DeleteCalls == SelectSeq(calls, LAMBDA c : c.op = "snapshot_delete")

\* C18: after the guard has passed, the snapshot-delete calls carry one
\* name each, follow the order of the collection, and are at most one per
\* snapshot; when the call for the k-th snapshot raises, it is the last
\* call and do_action raises FailedExecution; when do_action returns, one
\* call per snapshot has been issued and none raised.
C18_DeleteOneByOne ==
  kind = "DeleteSnapshots" =>
    LET D == DeleteCalls IN
    /\ Len(D) <= Len(indices)
    /\ \A j \in DOMAIN D : D[j].arg = <<indices[j]>>
    /\ \A j \in DOMAIN D :
         ~D[j].ok => /\ j = Len(D)
                     /\ ~calls[Len(calls)].ok
                     /\ pc = "done" /\ outcome = "FailedExecution"
    /\ (pc = "done" /\ outcome = "returned") =>
          /\ Len(D) = Len(indices)
          /\ \A j \in DOMAIN D : D[j].ok

C18_Witness ==
  /\ kind = "DeleteSnapshots" /\ pc = "done" /\ outcome = "FailedExecution"
  /\ Len(indices) = 3
  /\ Len(DeleteCalls) = 2
  /\ DeleteCalls[1].ok /\ ~DeleteCalls[2].ok

\* ------------------------------------------------------------------ Close
\* C19: the calls of Close.do_action alternate flush, close, chunk by
\* chunk: the flush of a chunk comes right before the close of the same
\* chunk, both before any call of the next chunk, and a close is issued
\* only when the flush of its chunk returned.
C19_FlushThenClose ==
  (kind = "Close" /\ calls # <<>>) =>
    /\ \A k \in DOMAIN calls :
         /\ calls[k].op = (IF k % 2 = 1 THEN "flush" ELSE "close")
         /\ calls[k].arg = to_csv(Chunks[(k + 1) \div 2])
         /\ calls[k].op = "close" => calls[k - 1].ok
         /\ k < Len(calls) => calls[k].ok
    /\ pc = "close" <=> (outcome = "none" /\ Len(calls) % 2 = 1)

C19_Witness ==
  /\ kind = "Close" /\ pc = "done"
  /\ Len(Chunks) = 2
  /\ Len(calls) = 3
  /\ ~calls[3].ok

\* ------------------------------------------------------------ termination
\* the delete call issued last before call k
LastDelete(k) ==
  CHOOSE d \in CallsOf("delete") :
    d < k /\ \A e \in CallsOf("delete") : e < k => e <= d

\* the delete calls and the get_indices re-queries made for chunk j
DeletesOf(j) == {k \in CallsOf("delete") : ChunkIdx(calls[k].arg) = j}
QueriesOf(j) ==
  {k \in CallsOf("get_indices") : ChunkIdx(calls[LastDelete(k)].arg) = j}

\* C20 (the bounds): DeleteIndices issues at most 3 delete calls and at
\* most 3 get_indices re-queries for each chunk, whatever the cluster
\* answers, and DeleteSnapshots polls the in-progress state at most
\* retry_count times.
C20_BoundedCalls ==
  /\ kind = "DeleteIndices" =>
        \A j \in DOMAIN Chunks :
          /\ Cardinality(DeletesOf(j)) <= MaxTries
          /\ Cardinality(QueriesOf(j)) <= MaxTries
  /\ kind = "DeleteSnapshots" =>
        Cardinality(StatusPolls) <= params.retry_count

\* C20 (the termination): a do_action that has been invoked returns or
\* raises, whatever the cluster answers and however long a snapshot stays
\* in progress.
C20_Terminates == Executing ~> pc = "done"

\* ------------------------------------------------- external snapshot races
\* C21 as stated: with another operator free to start a snapshot between
\* any two steps, no snapshot-create call is issued while a snapshot is in
\* progress in the cluster.
C21_CreateSerialized_AsStated ==
  \A k \in CallsOf("snapshot_create") : ~calls[k].in_progress

\* do_action is past the guard, about to create, and a snapshot runs
CreateWhileBusy == kind = "Snapshot" /\ pc = "snapshot_create" /\ running

\* C21, amended: a snapshot-create call comes right after a
\* snapshot_running check that answered that no snapshot runs, and
\* do_action stands before the create call with a snapshot in progress
\* only when that snapshot was started by another operator after the check:
\* no step of do_action leads there.
C21_CheckThenCreate ==
  [][ /\ (CreateWhileBusy' /\ ~CreateWhileBusy) =>
           (pc = "snapshot_create" /\ ~running /\ calls' = calls)
      /\ (Len(calls') > Len(calls)
            /\ calls'[Len(calls')].op = "snapshot_create") =>
           /\ calls # <<>>
           /\ calls[Len(calls)].op = "snapshot_running"
           /\ calls[Len(calls)].ok /\ ~calls[Len(calls)].in_progress
           /\ calls'[Len(calls')].in_progress = running ]_vars

C21_Witness ==
  /\ kind = "Snapshot"
  /\ \E k \in CallsOf("snapshot_create") :
       /\ calls[k].in_progress
       /\ calls[k - 1].op = "snapshot_running"
       /\ calls[k - 1].ok /\ ~calls[k - 1].in_progress

\* ------------------------------------------------------------ Alias frame
\* the add/remove calls that got past verify_index_list, to the binding of
\* the client
Binding == {k \in DOMAIN history : history[k].valid}

\* C22: an add or remove call that fails (invalid or empty collection)
\* leaves Alias.actions as it was, so actions holds the descriptors of the
\* successful calls only; Alias.client is the handle of the first
\* collection that reached the binding step and no later add/remove call
\* changes it; do_action sends update_aliases to that handle.
C22_AliasFrame ==
  kind = "Alias" =>
    /\ actions = ExpectedBody(SelectSeq(history, LAMBDA e : e.ok))
    /\ client = (IF Binding = {} THEN 0 ELSE history[Least(Binding)].h)
    /\ \A k \in CallsOf("update_aliases") :
         calls[k].client = client /\ client # 0

C22_Witness ==
  /\ kind = "Alias" /\ pc = "done" /\ outcome = "returned"
  /\ Len(history) = 2
  /\ history[1].valid /\ ~history[1].ok /\ history[1].h = 2
  /\ history[2].ok /\ history[2].h = 1
  /\ Len(calls) = 1 /\ calls[1].client = 2
  /\ Len(actions) = Len(history[2].ilo)

====
